---- MODULE Spec2Model ----
(***************************************************************************)
(* Model of process-csv/process_csv.py: the row loop of CsvProcessor.run   *)
(* (one request per row, resend on 429/402, one output record per row) and *)
(* the adaptive rate limiter CsvProcessor.handle_rate_limit.               *)
(*                                                                         *)
(* Durations are exact rationals <<numerator, denominator>> in seconds;    *)
(* the floating point rounding of the Python code is not modelled.         *)
(* The rows of the input file are assumed to hold every column the run     *)
(* reads, and the output functions are assumed not to raise on a response  *)
(* that has both "text" and "entities".                                    *)
(***************************************************************************)
EXTENDS Integers, Sequences, FiniteSets, TLC

\* ------------------------------------------------------------------ bounds
MaxRows == 2      \* data rows of the input file: 0..MaxRows
MaxCopy == 1      \* copy columns: none or MaxCopy
MaxFuncs == 2     \* compiled output functions: one or MaxFuncs
MaxElapsed == 1   \* seconds since the start of the last request: 0..MaxElapsed
MaxLiteralLen == 2 \* characters of a template literal: 0..MaxLiteralLen
MaxAnns == 2      \* annotations of a type in a response: 0..MaxAnns
MaxSurplus == 2   \* the tally of requests of a row stops MaxSurplus ahead of its hits

\* ------------------------------------------------------- program constants
MaxRateLimitFailures == 5   \* "if rate_limit_failures > 5"
MarginNum == 105            \* "* 1.05" as MarginNum / MarginDen
MarginDen == 100
HTTP_OK == 200
HTTP_TOO_MANY == 429
HTTP_PAYMENT == 402
HTTP_SERVER_ERROR == 500    \* stands for every status other than 200, 429, 402

\* ----------------------------------------------------------------- values
\* A header of a response: absent, present with a non-numeric text, or
\* present with the decimal text of the integer v.
Absent == [k |-> "absent", v |-> 0]
NonNumeric == [k |-> "text", v |-> 0]
Num(v) == [k |-> "num", v |-> v]

\* What the run keeps of a requests.Response: its status and the three
\* headers handle_rate_limit reads (retry-after, x-gate-rate-limit-calls,
\* x-gate-rate-limit-reset).  status 0 is the unbound local variable.
Response(status, h) ==
  [status |-> status, retry_after |-> h[1], calls |-> h[2], reset |-> h[3]]
Statuses == {HTTP_OK, HTTP_TOO_MANY, HTTP_PAYMENT, HTTP_SERVER_ERROR}

\* The responses handle_rate_limit is examined on.
RetryAfterValues == {Absent, NonNumeric, Num(2)}
CallsValues == {Absent, NonNumeric, Num(0), Num(1), Num(3), Num(10)}
ResetValues == {Absent, NonNumeric, Num(2), Num(100)}
LimiterResponses ==
  {Response(st, <<ra, c, t>>) :
     st \in Statuses, ra \in RetryAfterValues, c \in CallsValues, t \in ResetValues}

\* The responses the service answers with in the runs examined.
Responses ==
  { Response(HTTP_OK, <<Absent, Num(1), Num(2)>>),            \* numeric counters
    Response(HTTP_OK, <<Absent, Absent, Absent>>),            \* no rate-limit header
    Response(HTTP_SERVER_ERROR, <<Absent, NonNumeric, Absent>>),
    Response(HTTP_SERVER_ERROR, <<Absent, Absent, Absent>>),
    Response(HTTP_TOO_MANY, <<Num(2), Num(3), Num(2)>>),      \* retry-after
    Response(HTTP_TOO_MANY, <<Absent, Absent, Absent>>),
    Response(HTTP_PAYMENT, <<Num(2), Absent, Absent>>),
    Response(HTTP_PAYMENT, <<Absent, Num(1), Num(2)>>) }
Unbound == [status |-> 0, retry_after |-> Absent, calls |-> Absent, reset |-> Absent]

\* Rationals, normalised: positive denominator, lowest terms.
RECURSIVE GCD(_, _)
GCD(a, b) == IF b = 0 THEN a ELSE GCD(b, a % b)
Abs(x) == IF x < 0 THEN -x ELSE x
Rat(n, d) ==
  LET s == IF d < 0 THEN -1 ELSE 1
      g == GCD(Abs(n), Abs(d))
  IN  <<(s * n) \div g, (s * d) \div g>>
Zero == <<0, 1>>
RatLeq(a, b) == a[1] * b[2] <= b[1] * a[2]

\* A dict of the error payload is a set of <<key, value>> pairs; err_json is
\* None or such a dict.
None == [none |-> TRUE, items |-> {}]
Dict(items) == [none |-> FALSE, items |-> items]
Keys(d) == {p[1] : p \in d.items}
Get(d, key) == (CHOOSE p \in d.items : p[1] = key)[2]
Truthy(d) == ~d.none /\ d.items # {}
\* The JSON payloads a non-200, non-429/402 response may carry (JSON objects).
ErrorPayloads ==
  {Dict({<<"message", "quota">>}), Dict({<<"error", "boom">>}), Dict({})}
JsonDumps(d) ==
  IF d.items = {} THEN "{}"
  ELSE LET p == CHOOSE q \in d.items : TRUE IN "{" \o p[1] \o ": " \o p[2] \o "}"

\* ---------------------------------------------------------------- strings
\* Python str values are TLA+ strings; the character at position i (from 1).
Char(s, i) == SubSeq(s, i, i)
InString(c, s) == \E i \in 1..Len(s) : Char(s, i) = c
\* The classes of the regular expressions: \s, \w, [\w-], and "." (any
\* character but a newline).
IsSpace(c) == InString(c, " \t\n")
IsWord(c) == InString(c, "abcdefghijklmnopqrstuvwxyzABCDEFGHIJKLMNOPQRSTUVWXYZ0123456789_")
IsWordOrHyphen(c) == IsWord(c) \/ c = "-"
IsDot(c) == c # "\n"

\* The length of the longest prefix of s from position i on whose characters
\* all satisfy the class (a greedy "*").
RECURSIVE SpanSpace(_, _)
SpanSpace(s, i) == IF i <= Len(s) /\ IsSpace(Char(s, i)) THEN 1 + SpanSpace(s, i + 1) ELSE 0
RECURSIVE SpanNonSpace(_, _)
SpanNonSpace(s, i) ==
  IF i <= Len(s) /\ ~IsSpace(Char(s, i)) THEN 1 + SpanNonSpace(s, i + 1) ELSE 0
RECURSIVE SpanWordOrHyphen(_, _)
SpanWordOrHyphen(s, i) ==
  IF i <= Len(s) /\ IsWordOrHyphen(Char(s, i)) THEN 1 + SpanWordOrHyphen(s, i + 1) ELSE 0

\* str.strip()
RECURSIVE rstrip(_)
rstrip(s) == IF s # "" /\ IsSpace(Char(s, Len(s))) THEN rstrip(SubSeq(s, 1, Len(s) - 1)) ELSE s
strip(s) == LET t == rstrip(s) IN SubSeq(t, SpanSpace(t, 1) + 1, Len(t))

\* s.startswith(prefix)
StartsWith(s, prefix) == Len(s) >= Len(prefix) /\ SubSeq(s, 1, Len(prefix)) = prefix

\* str(n) of an int n >= 0
RECURSIVE IntStr(_)
IntStr(n) ==
  IF n < 10 THEN Char("0123456789", n + 1)
  ELSE IntStr(n \div 10) \o Char("0123456789", (n % 10) + 1)

\* separator.join(chunks)
RECURSIVE Join(_, _)
Join(separator, chunks) ==
  IF chunks = << >> THEN ""
  ELSE IF Len(chunks) = 1 THEN chunks[1]
  ELSE chunks[1] \o separator \o Join(separator, Tail(chunks))

\* lt_amp_re.sub(lt_amp_replacement, s): every "&amp;" becomes "&" and every
\* "&lt;" becomes "<", scanning from the left; the text put in is not scanned
\* again.
RECURSIVE unescape_gt_too(_)
unescape_gt_too(s) ==
  IF s = "" THEN ""
  ELSE IF StartsWith(s, "&amp;") THEN "&" \o unescape_gt_too(SubSeq(s, 6, Len(s)))
  ELSE IF StartsWith(s, "&lt;") THEN "<" \o unescape_gt_too(SubSeq(s, 5, Len(s)))
  ELSE IF StartsWith(s, "&gt;") THEN ">" \o unescape_gt_too(SubSeq(s, 5, Len(s)))
  ELSE Char(s, 1) \o unescape_gt_too(SubSeq(s, 2, Len(s)))
RECURSIVE unescape_lt_amp(_)
unescape_lt_amp(s) ==
  IF s = "" THEN ""
  ELSE IF StartsWith(s, "&amp;") THEN "&" \o unescape_lt_amp(SubSeq(s, 6, Len(s)))
  ELSE IF StartsWith(s, "&lt;") THEN "<" \o unescape_lt_amp(SubSeq(s, 5, Len(s)))
  ELSE Char(s, 1) \o unescape_lt_amp(SubSeq(s, 2, Len(s)))

\* ---------------------------------------------------------- JSON values
\* The values of an annotation's keys: a str, a float (n ten-thousandths, so
\* 8532 is 0.8532) or a list of ints (the indices).
StrValue(s) == [k |-> "str", s |-> s, n |-> 0, l |-> << >>]
FloatValue(n) == [k |-> "float", s |-> "", n |-> n, l |-> << >>]
ListValue(l) == [k |-> "list", s |-> "", n |-> 0, l |-> l]

\* n as w decimal digits, and a digit string without its trailing zeros
RECURSIVE Pad(_, _)
Pad(n, w) == IF w = 0 THEN "" ELSE Pad(n \div 10, w - 1) \o Char("0123456789", (n % 10) + 1)
RECURSIVE StripZeros(_)
StripZeros(s) ==
  IF Len(s) > 1 /\ Char(s, Len(s)) = "0" THEN StripZeros(SubSeq(s, 1, Len(s) - 1)) ELSE s

\* str(value)
str(v) ==
  IF v.k = "str" THEN v.s
  ELSE IF v.k = "float"
       THEN IntStr(v.n \div 10000) \o "." \o StripZeros(Pad(v.n % 10000, 4))
  ELSE "[" \o Join(", ", [i \in 1..Len(v.l) |-> IntStr(v.l[i])]) \o "]"

\* What a function returns (out) or the exception it raises.
Result(raised, out) == [raised |-> raised, out |-> out]

\* "{:.2%}".format(value): a percentage with two decimals of a number; the
\* format code % is a ValueError for a str and a TypeError for a list.
FormatPercent(v) ==
  IF v.k = "float"
  THEN Result("none", IntStr(v.n \div 100) \o "." \o Pad(v.n % 100, 2) \o "%")
  ELSE IF v.k = "str" THEN Result("ValueError", "")
  ELSE Result("TypeError", "")

\* response["text"][slice(*indices)] for indices [start, end] (from 0, end
\* excluded, both cut to the length of the text)
Min(a, b) == IF a <= b THEN a ELSE b
Slice(text, indices) ==
  LET start == Min(indices[1], Len(text))
      end == Min(indices[2], Len(text))
  IN  IF start < end THEN SubSeq(text, start + 1, end) ELSE ""

\* response["entities"].get(ann_type, [])
EntitiesGet(response, ann_type) ==
  IF ann_type \in DOMAIN response.entities THEN response.entities[ann_type] ELSE << >>

\* A group of a match: None when it took no part in the match.
NoGroup == [none |-> TRUE, s |-> ""]
Group(s) == [none |-> FALSE, s |-> s]
\* f"{group}"
FormatGroup(g) == IF g.none THEN "None" ELSE g.s

\* ------------------------------------------------------------- text_under
text_under(ann_type, separator, response) ==
  LET anns == EntitiesGet(response, ann_type)
  IN  Result("none",
             Join(separator,
                  [i \in 1..Len(anns) |->
                     unescape_lt_amp(Slice(response.text, anns[i]["indices"].l))]))

\* ----------------------------------------------------- response_to_column
\* replacement(m) for the groups (literal, feature, modifier) of a match
replacement(m, ann, response) ==
  IF ~m.literal.none /\ m.literal.s # ""                        \* "if literal:"
  THEN Result("none", m.literal.s)
  ELSE IF m.feature = Group("text")
       THEN Result("none", unescape_lt_amp(Slice(response.text, ann["indices"].l)))
  ELSE IF ~m.feature.none /\ m.feature.s \in DOMAIN ann          \* "feature in ann"
       THEN IF m.modifier = Group("as %")
            THEN FormatPercent(ann[m.feature.s])
            ELSE Result("none", str(ann[m.feature.s]))
  ELSE Result("none", FormatGroup(m.feature) \o " not found")

\* "\[(.*?)\]" at a "[": the position of the first "]" from j on, 0 when
\* there is none on the line.
RECURSIVE FindClose(_, _)
FindClose(t, j) ==
  IF j > Len(t) THEN 0
  ELSE IF Char(t, j) = "]" THEN j
  ELSE IF ~IsDot(Char(t, j)) THEN 0
  ELSE FindClose(t, j + 1)

\* "(?:\s+(as\s+%))?" from position i on: the position of the "%", 0 when
\* the group does not match.
ModifierEnd(t, i) ==
  LET ws1 == SpanSpace(t, i)
      ws2 == SpanSpace(t, i + ws1 + 2)
      end == i + ws1 + 2 + ws2
  IN  IF ws1 >= 1 /\ i + ws1 + 1 <= Len(t) /\ SubSeq(t, i + ws1, i + ws1 + 1) = "as"
         /\ ws2 >= 1 /\ end <= Len(t) /\ Char(t, end) = "%"
      THEN end ELSE 0

\* template_re.sub(replacement, template): the matches from the left, each
\* replaced by replacement(m), everything else copied; an exception of
\* replacement ends the substitution.
RECURSIVE template_re_sub(_, _, _)
template_re_sub(t, ann, response) ==
  IF t = "" THEN Result("none", "")
  ELSE
    LET c == Char(t, 1)
        close == IF c = "[" THEN FindClose(t, 2) ELSE 0
        w == IF IsWord(c) THEN 1 + SpanWordOrHyphen(t, 2) ELSE 0
        pct == IF w > 0 THEN ModifierEnd(t, w + 1) ELSE 0
        m == IF close > 0
             THEN [literal |-> Group(SubSeq(t, 2, close - 1)),
                   feature |-> NoGroup, modifier |-> NoGroup]
             ELSE [literal |-> NoGroup,
                   feature |-> Group(SubSeq(t, 1, w)),
                   modifier |-> IF pct > 0
                                THEN Group(SubSeq(t, w + 1 + SpanSpace(t, w + 1), pct))
                                ELSE NoGroup]
        matched == IF close > 0 THEN close ELSE IF pct > 0 THEN pct ELSE w
        head == IF matched > 0 THEN replacement(m, ann, response)
                ELSE Result("none", c)
        tail == template_re_sub(SubSeq(t, (IF matched > 0 THEN matched ELSE 1) + 1, Len(t)),
                                ann, response)
    IN  IF head.raised # "none" THEN head
        ELSE IF tail.raised # "none" THEN tail
        ELSE Result("none", head.out \o tail.out)

\* chunks of the annotations from position i on
RECURSIVE Chunks(_, _, _, _)
Chunks(anns, i, template, response) ==
  IF i > Len(anns) THEN Result("none", << >>)
  ELSE LET chunk == template_re_sub(template, anns[i], response)
           more == Chunks(anns, i + 1, template, response)
       IN  IF chunk.raised # "none" THEN Result(chunk.raised, << >>)
           ELSE IF more.raised # "none" THEN more
           ELSE Result("none", <<chunk.out>> \o more.out)

response_to_column(ann_type, template, separator, response) ==
  LET chunks == Chunks(EntitiesGet(response, ann_type), 1, template, response)
  IN  IF chunks.raised # "none" THEN Result(chunks.raised, "")
      ELSE Result("none", Join(separator, chunks.out))

\* -------------------------------------------------------- output_function
\* The function output_function builds: which of the four, on which
\* annotation type, with which template.
Fn(kind, ann_type, template) == [kind |-> kind, ann_type |-> ann_type, template |-> template]
NoFn == Fn("none", "", "")

\* s.index(c), 0 when c is not in s
RECURSIVE IndexOf(_, _, _)
IndexOf(s, c, i) ==
  IF i > Len(s) THEN 0 ELSE IF Char(s, i) = c THEN i ELSE IndexOf(s, c, i + 1)
RECURSIVE LastIndexOf(_, _, _)
LastIndexOf(s, c, i) ==
  IF i < 1 THEN 0 ELSE IF Char(s, i) = c THEN i ELSE LastIndexOf(s, c, i - 1)

\* "ann_type[ann_type.index(":") + 1 :]"
AfterColon_Last(ann_type) == SubSeq(ann_type, LastIndexOf(ann_type, ":", Len(ann_type)) + 1, Len(ann_type))
AfterColon(ann_type) == SubSeq(ann_type, IndexOf(ann_type, ":", 1) + 1, Len(ann_type))

\* "len(resp["entities"].get(ann_type, []))"
CountAnnotations_Presence(response, ann_type) ==
  IF Len(EntitiesGet(response, ann_type)) > 0 THEN 1 ELSE 0
CountAnnotations(response, ann_type) == Len(EntitiesGet(response, ann_type))

\* output_function(col, type_to_sel): the selector and the function, or the
\* exception raised (ann_type_re matches no blank definition and none whose
\* rest runs over a line end: None has no groups()).
output_function(col, type_to_sel) ==
  LET s == strip(col)
      n == SpanNonSpace(s, 1)
      ws == SpanSpace(s, n + 1)
      group1 == SubSeq(s, 1, n)
      rest == IF ws >= 1 THEN Group(SubSeq(s, n + ws + 1, Len(s))) ELSE NoGroup
      ann_selector == IF InString(":", group1) THEN group1
                      ELSE IF group1 \in DOMAIN type_to_sel THEN type_to_sel[group1]
                      ELSE ":" \o group1
      ann_type == IF InString(":", group1) THEN AfterColon(group1) ELSE group1
      fn == IF rest.none \/ rest.s = "" \/ rest.s = "text" THEN Fn("text_under", ann_type, "")
            ELSE IF rest.s = "present?" THEN Fn("present?", ann_type, "")
            ELSE IF rest.s = "#count" THEN Fn("#count", ann_type, "")
            ELSE Fn("response_to_column", ann_type, rest.s)
  IN  IF n = 0 \/ (~rest.none /\ InString("\n", rest.s))
      THEN [raised |-> "AttributeError", ann_selector |-> "", fn |-> NoFn]
      ELSE [raised |-> "none", ann_selector |-> ann_selector, fn |-> fn]

\* fn(response) for a function output_function built
CallFn(f, response) ==
  IF f.kind = "text_under" THEN text_under(f.ann_type, ";", response)
  ELSE IF f.kind = "present?"
       THEN Result("none", IntStr(IF CountAnnotations(response, f.ann_type) > 0 THEN 1 ELSE 0))
  ELSE IF f.kind = "#count"
       THEN Result("none", IntStr(CountAnnotations(response, f.ann_type)))
  ELSE response_to_column(f.ann_type, f.template, ";", response)

\* --------------------------------------- the inputs of output_function
\* type_to_sel when the metadata fetch failed, and the mappings examined
NoTypes == [t \in {} |-> ""]
TypeToSels ==
  { NoTypes,
    [t \in {"Person"} |-> "Bio:Person"],
    [t \in {"Person", "Location"} |-> IF t = "Person" THEN ":Person" ELSE "Geo:Location"] }

\* The literals of a template: every string of up to n of these characters.
LiteralChars == {"a", "[", " ", "%"}
RECURSIVE Literals(_)
Literals(n) ==
  IF n = 0 THEN {""}
  ELSE LET shorter == Literals(n - 1)
       IN  shorter \cup {c \o x : c \in LiteralChars, x \in shorter}
Templates ==
  {"[" \o x \o "]" : x \in Literals(MaxLiteralLen)}
    \cup {"kind", "score", "score as %", "kind as %", "missing", "text kind", "[=]text"}
TypeTokens == {"Person", "Bio:Person", ":Location", "a:b:Person"}
ColumnDefinitions ==
  {t : t \in TypeTokens}
    \cup {t \o " " \o r : t \in TypeTokens, r \in {"text", "present?", "#count"} \cup Templates}
    \cup {"  Person   #count "}

\* The bodies of 200 responses: a text and, for the type Person, up to
\* MaxAnns annotations, or no annotation type at all.
ServiceText == "A &amp; B &lt;tag&gt;"
Annotations ==
  { [indices |-> ListValue(<<0, 21>>), kind |-> StrValue("x"), score |-> FloatValue(8532)],
    [indices |-> ListValue(<<2, 7>>), text |-> StrValue("T")],
    [indices |-> ListValue(<<9, 30>>)] }
AnnotationLists == UNION {[1..n -> Annotations] : n \in 0..MaxAnns}
NoEntities == [t \in {} |-> << >>]
ServiceResponses ==
  {[text |-> ServiceText, entities |-> e] :
     e \in {NoEntities} \cup {[t \in {"Person"} |-> l] : l \in AnnotationLists}}
NoResponseJson == [text |-> "", entities |-> NoEntities]

\* --------------------------------------------- get_annotations_from_metadata
\* The answer to the metadata call: no response at all (status 0, session.get
\* raises), or a status with a body that is JSON or not; the JSON body may
\* hold defaultAnnotations and additionalAnnotations (NoGroup: key absent).
Metadata(status, json, default, additional) ==
  [status |-> status, json |-> json, default |-> default, additional |-> additional]
NoMetadata == Metadata(0, FALSE, NoGroup, NoGroup)

\* s.split(sep) for a separator of one character
RECURSIVE Split(_, _)
Split(s, sep) ==
  LET i == IndexOf(s, sep, 1)
  IN  IF i = 0 THEN <<s>>
      ELSE <<SubSeq(s, 1, i - 1)>> \o Split(SubSeq(s, i + 1, Len(s)), sep)

\* "sel.strip() for sel in service_metadata[key].split(",")", nothing when
\* service_metadata.get(key) is None or ""
ListedSelectors(value) ==
  IF value.none \/ value.s = "" THEN << >>
  ELSE LET parts == Split(value.s, ",") IN [i \in 1..Len(parts) |-> strip(parts[i])]

\* "as_name, _, ann_type = selector.partition(":")": ann_type is "" when the
\* selector has no colon
PartitionType(selector) ==
  LET i == IndexOf(selector, ":", 1)
  IN  IF i = 0 THEN "" ELSE SubSeq(selector, i + 1, Len(selector))

\* "if ann_type not in type_to_sel: type_to_sel[ann_type] = selector"
RecordSelector_LastWins(mapping, ann_type, selector) ==
  [t \in DOMAIN mapping \cup {ann_type} |-> IF t = ann_type THEN selector ELSE mapping[t]]
RecordSelector(mapping, ann_type, selector) ==
  IF ann_type \in DOMAIN mapping THEN mapping
  ELSE [t \in DOMAIN mapping \cup {ann_type} |-> IF t = ann_type THEN selector ELSE mapping[t]]

\* "for selector in all_selectors", from position i on
RECURSIVE ScanSelectors(_, _, _)
ScanSelectors(all_selectors, i, mapping) ==
  IF i > Len(all_selectors) THEN mapping
  ELSE ScanSelectors(all_selectors, i + 1,
                     RecordSelector(mapping, PartitionType(all_selectors[i]), all_selectors[i]))

\* The mapping get_annotations_from_metadata returns, or the exception it
\* raises: of session.get when there is no response, of resp.json() when
\* the body of a 200 response is no JSON.
get_annotations_from_metadata(resp) ==
  IF resp.status = 0
  THEN [raised |-> "ConnectionError", type_to_sel |-> NoTypes]
  ELSE IF resp.status # HTTP_OK
       THEN [raised |-> "none", type_to_sel |-> NoTypes]
  ELSE IF ~resp.json
       THEN [raised |-> "JSONDecodeError", type_to_sel |-> NoTypes]
  ELSE [raised |-> "none",
        type_to_sel |-> ScanSelectors(ListedSelectors(resp.default)
                                        \o ListedSelectors(resp.additional), 1, NoTypes)]

\* The answers to the metadata call that are examined.
SelectorLists ==
  { NoGroup, Group(""), Group("Bio:Person"), Group(":Person,Bio:Person"),
    Group(" Geo:Location , Bio:Person,:Location"), Group("a:b:Person, :Person"),
    Group("Bio:Person,Geo:Location,Med:Person") }
MetadataResponses ==
  {Metadata(HTTP_OK, TRUE, d, a) : d \in SelectorLists, a \in SelectorLists}
    \cup {Metadata(st, j, d, a) : st \in {HTTP_TOO_MANY, HTTP_SERVER_ERROR}, j \in BOOLEAN,
                                  d \in {NoGroup, Group("Bio:Person")}, a \in {NoGroup}}
    \cup {Metadata(HTTP_OK, FALSE, NoGroup, NoGroup), NoMetadata}

\* The params of a request: the annotation selectors; none before a request.
NoParams == [sent |-> FALSE, annotations |-> {}]
Params(selectors) == [sent |-> TRUE, annotations |-> selectors]

\* One field of an output record.
Field(kind, row, n, text) == [kind |-> kind, row |-> row, n |-> n, text |-> text]

VARIABLES
  nrows,                      \* number of data rows of the input file
  ncopy,                      \* len(self.copy_columns)
  nfuncs,                     \* len(self.output_functions)
  pc,                         \* "for", "while", "after", "done", "exit", "raised"
  idx,                        \* rows started so far (the current row when > 0)
  err_json,
  results,
  response,
  rate_limit_failures,
  wait_before_next_call,
  prev_rate_limit_remaining,  \* self.prev_rate_limit_remaining
  request_start_time,         \* TRUE once self.request_start_time is set
  written,                    \* data records of the output file, in order
  exc,                        \* the exception that ended the run, or "none"
  reqs,                       \* requests sent for the row being processed
  row_hits,                   \* 429/402 responses received for that row
  total_hits,                 \* 429/402 responses received in the run
  last_req_row,               \* row of the request sent last (0: none yet)
  outcome,                    \* how the last request of the row being processed ended
  fed,                        \* calls handle_rate_limit(response) made with the
                              \* response now held: 0, 1 or 2 (twice or more)
  slept,                      \* duration of the time.sleep before the last request
  last_returned,              \* value handle_rate_limit returned last (0: no call yet)
  col,                        \* a column definition of the command line
  type_to_sel,                \* annotation type -> selector, from the service metadata
  resp_json,                  \* the decoded body of a 200 response: text and entities
  ann_selector,               \* the selector output_function(col, type_to_sel) returned
  fn,                         \* the function output_function(col, type_to_sel) returned
  cell,                       \* fn(resp_json), the value of the derived column
  metadata,                   \* the answer to the metadata call of __init__
  output_columns,             \* self.output_columns, the column definitions in order
  ann_selectors,              \* self.ann_selectors["annotations"], a frozenset
  output_functions,           \* self.output_functions, a list
  params                      \* the params of the request sent last

vars ==
  <<nrows, ncopy, nfuncs, pc, idx, err_json, results, response,
    rate_limit_failures, wait_before_next_call, prev_rate_limit_remaining,
    request_start_time, written, exc, reqs, row_hits, total_hits, last_req_row,
    outcome, fed, slept, last_returned,
    col, type_to_sel, resp_json, ann_selector, fn, cell,
    metadata, output_columns, ann_selectors, output_functions, params>>
initvars == <<metadata, output_columns, ann_selectors, output_functions>>
colvars == <<col, type_to_sel, resp_json, ann_selector, fn, cell>>

\* ------------------------------------------------------ handle_rate_limit
RateLimitResult_ForgetsCount(raised, wait, prev) ==
  [raised |-> raised, wait |-> wait, prev |-> -1]
RateLimitResult(raised, wait, prev) == [raised |-> raised, wait |-> wait, prev |-> prev]

\* "(response.status_code == 429 or response.status_code == 402) and
\*  ("retry-after" in response.headers)"
RetryAfterApplies_Only429(resp) ==
  resp.status = HTTP_TOO_MANY /\ resp.retry_after.k # "absent"
RetryAfterApplies(resp) ==
  (resp.status = HTTP_TOO_MANY \/ resp.status = HTTP_PAYMENT)
  /\ resp.retry_after.k # "absent"

\* used_limit_since_last_call
UsedLimitSinceLastCall_AlwaysOne(prev, this) == 1
UsedLimitSinceLastCall(prev, this) ==
  IF 0 < prev /\ prev < this THEN this - prev ELSE 1

\* (time_until_reset / this_rate_limit_remaining) * used * 1.05, plus
\* request_start_time - time.perf_counter() when a start time is recorded;
\* this_rate_limit_remaining is not 0 here.
WaitTimeUntilNextCall(reset, this, used, started, elapsed) ==
  Rat(reset * used * MarginNum - (IF started THEN elapsed * this * MarginDen ELSE 0),
      this * MarginDen)

\* The value handle_rate_limit returns or the exception it raises, and the
\* value it leaves in self.prev_rate_limit_remaining.  elapsed is
\* time.perf_counter() - self.request_start_time at the moment of the call.
handle_rate_limit(resp, prev, started, elapsed) ==
  IF RetryAfterApplies(resp)
  THEN IF resp.retry_after.k = "num"
       THEN RateLimitResult("none", Rat(resp.retry_after.v, 1), prev)
       ELSE RateLimitResult("ValueError", Zero, prev)       \* float() of a non-number
  ELSE IF resp.calls.k = "absent"
       THEN RateLimitResult("KeyError", Zero, prev)         \* headers[...] of a missing header
  ELSE IF resp.calls.k = "text"
       THEN RateLimitResult("none", Zero, prev)             \* except ValueError: return 0.0
  ELSE IF resp.reset.k = "absent"
       THEN RateLimitResult("KeyError", Zero, prev)
  ELSE IF resp.reset.k = "text"
       THEN RateLimitResult("none", Zero, prev)
  ELSE LET this == resp.calls.v
           used == UsedLimitSinceLastCall(prev, this)
       IN  IF this = 0
           THEN RateLimitResult("ZeroDivisionError", Zero, this)
           ELSE LET w == WaitTimeUntilNextCall(resp.reset.v, this, used, started, elapsed)
                IN  RateLimitResult("none", IF w[1] > 0 THEN w ELSE Zero, this)

\* -------------------------------------------------------------------- run
Init ==
  /\ nrows \in 0..MaxRows
  /\ ncopy \in {0, MaxCopy}
  /\ nfuncs \in {1, MaxFuncs}
  /\ pc = "for"
  /\ idx = 0
  /\ err_json = None
  /\ results = << >>
  /\ response = Unbound
  /\ rate_limit_failures = 0
  /\ wait_before_next_call = Zero
  /\ prev_rate_limit_remaining = -1
  /\ request_start_time = FALSE
  /\ written = << >>
  /\ exc = "none"
  /\ reqs = 0
  /\ row_hits = 0
  /\ total_hits = 0
  /\ last_req_row = 0
  /\ outcome = "none"
  /\ fed = 0
  /\ slept = Zero
  /\ last_returned = Zero
  /\ col = ""
  /\ type_to_sel = NoTypes
  /\ resp_json = NoResponseJson
  /\ ann_selector = ""
  /\ fn = NoFn
  /\ cell = ""
  /\ metadata = NoMetadata
  /\ output_columns = [f \in 1..nfuncs |-> "Person"]
  /\ ann_selectors = {":Person"}
  /\ output_functions = [f \in 1..nfuncs |-> Fn("text_under", "Person", "")]
  /\ params = NoParams

\* "results = [row[c] for c in copy_columns]"
CopyFields(row) == [c \in 1..ncopy |-> Field("copy", row, c, "")]
\* "results.extend(f(resp_json) for f in self.output_functions)"
DerivedFields(row) == [f \in 1..nfuncs |-> Field("derived", row, f, "")]
StatusField(row, text) == Field("status", row, 0, text)

\* "if rate_limit_failures > 5"
CapExceeded_OffByOne(failures) == failures > MaxRateLimitFailures + 1
CapExceeded(failures) == failures > MaxRateLimitFailures

\* "w.writerow(results)"
WriteRow_SkipErrors(out, record) ==
  IF \E i \in 1..Len(record) : record[i].text = "Success" THEN Append(out, record) ELSE out
WriteRow(out, record) == Append(out, record)

\* The top of an iteration of "while True" up to session.post: the copy
\* columns, the pacing sleep, the start time, the request.
SendRequest_NoSleep ==
  /\ pc = "while"
  /\ request_start_time' = TRUE
  /\ last_req_row' = idx
  /\ slept' = Zero
  /\ params' = Params(ann_selectors)
  /\ reqs' = IF reqs - row_hits < MaxSurplus THEN reqs + 1 ELSE reqs
SendRequest ==
  /\ pc = "while"
  /\ request_start_time' = TRUE
  /\ last_req_row' = idx
  /\ slept' = wait_before_next_call
  /\ params' = Params(ann_selectors)
  /\ reqs' = IF reqs - row_hits < MaxSurplus THEN reqs + 1 ELSE reqs

\* "for idx, row in enumerate(r)": the next row, "err_json = None".
NextRow ==
  /\ pc = "for"
  /\ idx < nrows
  /\ idx' = idx + 1
  /\ err_json' = None
  /\ pc' = "while"
  /\ UNCHANGED params
  /\ UNCHANGED colvars
  /\ UNCHANGED initvars
  /\ UNCHANGED <<nrows, ncopy, nfuncs, results, response, rate_limit_failures,
                 wait_before_next_call, prev_rate_limit_remaining,
                 request_start_time, written, exc, reqs, row_hits, total_hits,
                 last_req_row, outcome, fed, slept, last_returned>>

\* The input is exhausted: the run returns.
EndOfInput ==
  /\ pc = "for"
  /\ idx = nrows
  /\ pc' = "done"
  /\ UNCHANGED params
  /\ UNCHANGED colvars
  /\ UNCHANGED initvars
  /\ UNCHANGED <<nrows, ncopy, nfuncs, idx, err_json, results, response,
                 rate_limit_failures, wait_before_next_call,
                 prev_rate_limit_remaining, request_start_time, written, exc,
                 reqs, row_hits, total_hits, last_req_row, outcome, fed, slept,
                 last_returned>>

\* "err_json = dict(message=str(e))" for the exception of session.post.
TransportError == Dict({<<"message", "timed out">>})

\* session.post raises requests.RequestException: no response is assigned.
PostTransportFailure ==
  /\ SendRequest
  /\ results' = CopyFields(idx)
  /\ err_json' = TransportError
  /\ pc' = "after"
  /\ outcome' = "transport"
  /\ UNCHANGED colvars
  /\ UNCHANGED initvars
  /\ UNCHANGED <<nrows, ncopy, nfuncs, idx, response, rate_limit_failures,
                 wait_before_next_call, prev_rate_limit_remaining, written, exc,
                 row_hits, total_hits, fed, last_returned>>

\* HTTP 200 whose JSON body has "text" and "entities".
PostSuccess ==
  /\ SendRequest
  /\ \E r \in Responses :
       /\ r.status = HTTP_OK
       /\ response' = r
  /\ results' = CopyFields(idx) \o <<StatusField(idx, "Success")>> \o DerivedFields(idx)
  /\ pc' = "after"
  /\ outcome' = "success"
  /\ fed' = 0
  /\ UNCHANGED colvars
  /\ UNCHANGED initvars
  /\ UNCHANGED <<nrows, ncopy, nfuncs, idx, err_json, rate_limit_failures,
                 wait_before_next_call, prev_rate_limit_remaining, written, exc,
                 row_hits, total_hits, last_returned>>

\* HTTP 200 whose JSON body lacks "text" or "entities": neither branch of
\* the inner "if" is taken and there is no break, so "while True" iterates.
PostIncompleteBody ==
  /\ SendRequest
  /\ \E r \in Responses :
       /\ r.status = HTTP_OK
       /\ response' = r
  /\ results' = CopyFields(idx)
  /\ pc' = "while"
  /\ outcome' = "incomplete"
  /\ fed' = 0
  /\ UNCHANGED colvars
  /\ UNCHANGED initvars
  /\ UNCHANGED <<nrows, ncopy, nfuncs, idx, err_json, rate_limit_failures,
                 wait_before_next_call, prev_rate_limit_remaining, written, exc,
                 row_hits, total_hits, last_returned>>

\* HTTP 200 whose body is not JSON: response.json() raises
\* requests.JSONDecodeError, a RequestException, caught at line 293.
PostUndecodableBody ==
  /\ SendRequest
  /\ \E r \in Responses :
       /\ r.status = HTTP_OK
       /\ response' = r
  /\ results' = CopyFields(idx)
  /\ err_json' = Dict({<<"message", "Expecting value">>})
  /\ pc' = "after"
  /\ outcome' = "undecodable"
  /\ fed' = 0
  /\ UNCHANGED colvars
  /\ UNCHANGED initvars
  /\ UNCHANGED <<nrows, ncopy, nfuncs, idx, rate_limit_failures,
                 wait_before_next_call, prev_rate_limit_remaining, written, exc,
                 row_hits, total_hits, last_returned>>

\* "logger.error(...); sys.exit(1)": SystemExit leaves the run; the "with"
\* blocks close the output file as it is.
GiveUp_FlushRow ==
  /\ pc' = "exit"
  /\ exc' = "SystemExit(1)"
  /\ written' = Append(written, results')
  /\ UNCHANGED <<wait_before_next_call, prev_rate_limit_remaining>>
GiveUp ==
  /\ pc' = "exit"
  /\ exc' = "SystemExit(1)"
  /\ written' = written
  /\ UNCHANGED <<wait_before_next_call, prev_rate_limit_remaining>>

\* HTTP 429 or 402: the hit is counted; past the cap sys.exit(1), else the
\* wait is taken from handle_rate_limit and "while True" iterates.  An
\* exception of handle_rate_limit is not caught (it is no RequestException).
PostRateLimited ==
  /\ SendRequest
  /\ results' = CopyFields(idx)
  /\ \E r \in Responses, elapsed \in 0..MaxElapsed :
       /\ r.status = HTTP_TOO_MANY \/ r.status = HTTP_PAYMENT
       /\ response' = r
       /\ rate_limit_failures' = rate_limit_failures + 1
       /\ IF CapExceeded(rate_limit_failures')
          THEN /\ GiveUp
               /\ fed' = 0
               /\ last_returned' = last_returned
          ELSE LET h == handle_rate_limit(r, prev_rate_limit_remaining, TRUE, elapsed)
               IN  /\ prev_rate_limit_remaining' = h.prev
                   /\ written' = written
                   /\ fed' = 1
                   /\ IF h.raised = "none"
                      THEN /\ wait_before_next_call' = h.wait
                           /\ last_returned' = h.wait
                           /\ pc' = "while"
                           /\ exc' = exc
                      ELSE /\ pc' = "raised"
                           /\ exc' = h.raised
                           /\ UNCHANGED <<wait_before_next_call, last_returned>>
  /\ outcome' = "ratelimited"
  /\ row_hits' = row_hits + 1
  /\ total_hits' = total_hits + 1
  /\ UNCHANGED colvars
  /\ UNCHANGED initvars
  /\ UNCHANGED <<nrows, ncopy, nfuncs, idx, err_json>>

\* The bodies of a response of any other status: a JSON payload, or a text
\* that response.json() cannot decode ("err_json = dict(message=response.text)").
ErrorBodies == ErrorPayloads \cup {Dict({<<"message", "Bad Gateway">>})}

\* Any other status: "Genuine error response".
PostError ==
  /\ SendRequest
  /\ \E r \in Responses, body \in ErrorBodies :
       /\ r.status = HTTP_SERVER_ERROR
       /\ response' = r
       /\ err_json' = body
  /\ results' = CopyFields(idx)
  /\ pc' = "after"
  /\ outcome' = "error"
  /\ fed' = 0
  /\ UNCHANGED colvars
  /\ UNCHANGED initvars
  /\ UNCHANGED <<nrows, ncopy, nfuncs, idx, rate_limit_failures,
                 wait_before_next_call, prev_rate_limit_remaining, written, exc,
                 row_hits, total_hits, last_returned>>

\* "if err_json: ... results.append(...)": the record of the row.
FinalRecord(res, ej, row) ==
  IF Truthy(ej)
  THEN IF "message" \in Keys(ej)
       THEN Append(res, StatusField(row, "Error: " \o Get(ej, "message")))
       ELSE Append(res, StatusField(row, "Error: " \o JsonDumps(ej)))
  ELSE res

\* After the while loop: handle_rate_limit(response) on whatever the local
\* variable response holds, the status field, w.writerow(results).
AfterLoop ==
  /\ pc = "after"
  /\ IF response = Unbound
     THEN /\ pc' = "raised"
          /\ exc' = "UnboundLocalError"
          /\ UNCHANGED <<wait_before_next_call, prev_rate_limit_remaining,
                         results, written, reqs, row_hits, outcome, fed,
                         last_returned>>
     ELSE \E elapsed \in 0..MaxElapsed :
            LET h == handle_rate_limit(response, prev_rate_limit_remaining,
                                       request_start_time, elapsed)
            IN  /\ prev_rate_limit_remaining' = h.prev
                /\ fed' = IF fed < 2 THEN fed + 1 ELSE fed
                /\ IF h.raised = "none"
                   THEN /\ wait_before_next_call' = h.wait
                        /\ last_returned' = h.wait
                        /\ outcome' = "none"
                        /\ results' = FinalRecord(results, err_json, idx)
                        /\ written' = WriteRow(written, results')
                        /\ pc' = "for"
                        /\ exc' = exc
                        /\ reqs' = 0
                        /\ row_hits' = 0
                   ELSE /\ pc' = "raised"
                        /\ exc' = h.raised
                        /\ UNCHANGED <<wait_before_next_call, results, written,
                                       reqs, row_hits, outcome, last_returned>>
  /\ UNCHANGED params
  /\ UNCHANGED colvars
  /\ UNCHANGED initvars
  /\ UNCHANGED <<nrows, ncopy, nfuncs, idx, err_json, response,
                 rate_limit_failures, request_start_time, total_hits,
                 last_req_row, slept>>

Next ==
  \/ NextRow
  \/ EndOfInput
  \/ PostTransportFailure
  \/ PostSuccess
  \/ PostIncompleteBody
  \/ PostUndecodableBody
  \/ PostRateLimited
  \/ PostError
  \/ AfterLoop

Spec == Init /\ [][Next]_vars

\* The interpreter keeps executing the run until it returns or raises.
FairSpec == Spec /\ WF_vars(Next)

\* ------------------------------------------- handle_rate_limit on its own
\* The rate limiter of one CsvProcessor, called with any response: the
\* state is prev_rate_limit_remaining and request_start_time, the result
\* is left in wait_before_next_call or, when the call raises, in exc.
LimiterInit ==
  /\ nrows = 0
  /\ ncopy = 0
  /\ nfuncs = 1
  /\ pc = "limiter"
  /\ idx = 0
  /\ err_json = None
  /\ results = << >>
  /\ response = Unbound
  /\ rate_limit_failures = 0
  /\ wait_before_next_call = Zero
  /\ prev_rate_limit_remaining = -1
  /\ request_start_time = FALSE
  /\ written = << >>
  /\ exc = "none"
  /\ reqs = 0
  /\ row_hits = 0
  /\ total_hits = 0
  /\ last_req_row = 0
  /\ outcome = "none"
  /\ fed = 0
  /\ slept = Zero
  /\ last_returned = Zero
  /\ col = ""
  /\ type_to_sel = NoTypes
  /\ resp_json = NoResponseJson
  /\ ann_selector = ""
  /\ fn = NoFn
  /\ cell = ""
  /\ metadata = NoMetadata
  /\ output_columns = << >>
  /\ ann_selectors = {}
  /\ output_functions = << >>
  /\ params = NoParams

\* "self.request_start_time = time.perf_counter()"
RecordStartTime ==
  /\ pc = "limiter"
  /\ exc = "none"
  /\ ~request_start_time
  /\ request_start_time' = TRUE
  /\ UNCHANGED params
  /\ UNCHANGED colvars
  /\ UNCHANGED initvars
  /\ UNCHANGED <<nrows, ncopy, nfuncs, pc, idx, err_json, results, response,
                 rate_limit_failures, wait_before_next_call,
                 prev_rate_limit_remaining, written, exc, reqs, row_hits,
                 total_hits, last_req_row, outcome, fed, slept, last_returned>>

\* One call handle_rate_limit(r); nothing is called after a call has raised.
CallHandleRateLimit ==
  /\ pc = "limiter"
  /\ exc = "none"
  /\ \E r \in LimiterResponses, elapsed \in 0..MaxElapsed :
       LET h == handle_rate_limit(r, prev_rate_limit_remaining,
                                  request_start_time, elapsed)
       IN  /\ response' = r
           /\ prev_rate_limit_remaining' = h.prev
           /\ exc' = h.raised
           /\ wait_before_next_call' =
                IF h.raised = "none" THEN h.wait ELSE wait_before_next_call
  /\ UNCHANGED params
  /\ UNCHANGED colvars
  /\ UNCHANGED initvars
  /\ UNCHANGED <<nrows, ncopy, nfuncs, pc, idx, err_json, results,
                 rate_limit_failures, request_start_time, written, reqs,
                 row_hits, total_hits, last_req_row, outcome, fed, slept,
                 last_returned>>

LimiterNext ==
  \/ RecordStartTime
  \/ CallHandleRateLimit

LimiterSpec == LimiterInit /\ [][LimiterNext]_vars

\* ---------------------------------------------- a column of the output
\* One column definition compiled by output_function (as __init__ does for
\* every definition) and its function applied to the body of a response (as
\* run does for every Success row).
ColumnInit ==
  /\ nrows = 0
  /\ ncopy = 0
  /\ nfuncs = 1
  /\ pc = "column"
  /\ idx = 0
  /\ err_json = None
  /\ results = << >>
  /\ response = Unbound
  /\ rate_limit_failures = 0
  /\ wait_before_next_call = Zero
  /\ prev_rate_limit_remaining = -1
  /\ request_start_time = FALSE
  /\ written = << >>
  /\ exc = "none"
  /\ reqs = 0
  /\ row_hits = 0
  /\ total_hits = 0
  /\ last_req_row = 0
  /\ outcome = "none"
  /\ fed = 0
  /\ slept = Zero
  /\ last_returned = Zero
  /\ col \in ColumnDefinitions
  /\ type_to_sel \in TypeToSels
  /\ resp_json \in ServiceResponses
  /\ ann_selector = ""
  /\ fn = NoFn
  /\ cell = ""
  /\ metadata = NoMetadata
  /\ output_columns = << >>
  /\ ann_selectors = {}
  /\ output_functions = << >>
  /\ params = NoParams

runvars ==
  <<nrows, ncopy, nfuncs, idx, err_json, results, response, rate_limit_failures,
    wait_before_next_call, prev_rate_limit_remaining, request_start_time, written,
    reqs, row_hits, total_hits, last_req_row, outcome, fed, slept, last_returned,
    params>>

\* "ann_sel, func = output_function(col, type_to_sel)"
CompileColumn ==
  /\ pc = "column"
  /\ LET compiled == output_function(col, type_to_sel)
     IN  IF compiled.raised = "none"
         THEN /\ ann_selector' = compiled.ann_selector
              /\ fn' = compiled.fn
              /\ pc' = "compiled"
              /\ exc' = exc
         ELSE /\ pc' = "raised"
              /\ exc' = compiled.raised
              /\ UNCHANGED <<ann_selector, fn>>
  /\ UNCHANGED <<col, type_to_sel, resp_json, cell>>
  /\ UNCHANGED runvars
  /\ UNCHANGED initvars

\* "f(resp_json)"
ApplyColumn ==
  /\ pc = "compiled"
  /\ LET value == CallFn(fn, resp_json)
     IN  IF value.raised = "none"
         THEN /\ cell' = value.out
              /\ pc' = "applied"
              /\ exc' = exc
         ELSE /\ pc' = "raised"
              /\ exc' = value.raised
              /\ cell' = cell
  /\ UNCHANGED <<col, type_to_sel, resp_json, ann_selector, fn>>
  /\ UNCHANGED runvars
  /\ UNCHANGED initvars

ColumnNext ==
  \/ CompileColumn
  \/ ApplyColumn

ColumnSpec == ColumnInit /\ [][ColumnNext]_vars

\* ------------------------------------------------------ the metadata call
\* "self.type_to_sel = self.get_annotations_from_metadata()" of __init__,
\* for any answer to the metadata call.
MetadataInit ==
  /\ nrows = 0
  /\ ncopy = 0
  /\ nfuncs = 1
  /\ pc = "metadata"
  /\ idx = 0
  /\ err_json = None
  /\ results = << >>
  /\ response = Unbound
  /\ rate_limit_failures = 0
  /\ wait_before_next_call = Zero
  /\ prev_rate_limit_remaining = -1
  /\ request_start_time = FALSE
  /\ written = << >>
  /\ exc = "none"
  /\ reqs = 0
  /\ row_hits = 0
  /\ total_hits = 0
  /\ last_req_row = 0
  /\ outcome = "none"
  /\ fed = 0
  /\ slept = Zero
  /\ last_returned = Zero
  /\ col = ""
  /\ type_to_sel = NoTypes
  /\ resp_json = NoResponseJson
  /\ ann_selector = ""
  /\ fn = NoFn
  /\ cell = ""
  /\ metadata \in MetadataResponses
  /\ output_columns = << >>
  /\ ann_selectors = {}
  /\ output_functions = << >>
  /\ params = NoParams

FetchMetadata ==
  /\ pc = "metadata"
  /\ LET fetched == get_annotations_from_metadata(metadata)
     IN  IF fetched.raised = "none"
         THEN /\ type_to_sel' = fetched.type_to_sel
              /\ pc' = "fetched"
              /\ exc' = exc
         ELSE /\ pc' = "raised"
              /\ exc' = fetched.raised
              /\ type_to_sel' = type_to_sel
  /\ UNCHANGED <<col, resp_json, ann_selector, fn, cell>>
  /\ UNCHANGED runvars
  /\ UNCHANGED initvars

MetadataNext == FetchMetadata

MetadataSpec == MetadataInit /\ [][MetadataNext]_vars

\* ------------------------------------------------- __init__ and then run
\* The --results arguments examined: one to MaxFuncs definitions, blank
\* ones among them.
ResultDefinitions == {"Person", " Person #count", "Bio:Person kind", " "}
ResultsArguments == UNION {[1..n -> ResultDefinitions] : n \in 1..MaxFuncs}

\* "output_columns = [c.strip() for c in args.results]" and
\* "self.output_columns = [c for c in output_columns if c]"
NotBlank(c) == c # ""
StripAndFilter(results_arg) ==
  SelectSeq([i \in 1..Len(results_arg) |-> strip(results_arg[i])], NotBlank)

\* "frozenset(next(selectors_and_functions))"
AnnotationSelectors_FirstOnly(compiled) == {compiled[1].ann_selector}
AnnotationSelectors(compiled) == {compiled[i].ann_selector : i \in 1..Len(compiled)}
\* "list(next(selectors_and_functions))"
OutputFunctions(compiled) == [i \in 1..Len(compiled) |-> compiled[i].fn]

\* A CsvProcessor whose metadata call has returned type_to_sel, before the
\* column definitions are compiled; then its run over an input of one row.
ProcessorInit ==
  /\ nrows = 1
  /\ ncopy = 0
  /\ nfuncs = 0
  /\ pc = "init"
  /\ idx = 0
  /\ err_json = None
  /\ results = << >>
  /\ response = Unbound
  /\ rate_limit_failures = 0
  /\ wait_before_next_call = Zero
  /\ prev_rate_limit_remaining = -1
  /\ request_start_time = FALSE
  /\ written = << >>
  /\ exc = "none"
  /\ reqs = 0
  /\ row_hits = 0
  /\ total_hits = 0
  /\ last_req_row = 0
  /\ outcome = "none"
  /\ fed = 0
  /\ slept = Zero
  /\ last_returned = Zero
  /\ col = ""
  /\ type_to_sel \in {m \in TypeToSels : DOMAIN m \subseteq {"Person"}}
  /\ resp_json = NoResponseJson
  /\ ann_selector = ""
  /\ fn = NoFn
  /\ cell = ""
  /\ metadata = NoMetadata
  /\ output_columns \in ResultsArguments
  /\ ann_selectors = {}
  /\ output_functions = << >>
  /\ params = NoParams

\* Lines 147-157: the definitions are stripped, the blank ones dropped, each
\* compiled by output_function, the selectors put in a frozenset and the
\* functions in a list; next() of the empty zip raises StopIteration.
CompileColumns ==
  /\ pc = "init"
  /\ LET columns == StripAndFilter(output_columns)
         compiled == [i \in 1..Len(columns) |-> output_function(columns[i], type_to_sel)]
     IN  /\ output_columns' = columns
         /\ IF \E i \in 1..Len(compiled) : compiled[i].raised # "none"
            THEN /\ pc' = "raised"
                 /\ exc' = "AttributeError"
                 /\ UNCHANGED <<ann_selectors, output_functions, nfuncs>>
            ELSE IF compiled = << >>
            THEN /\ pc' = "raised"
                 /\ exc' = "StopIteration"
                 /\ UNCHANGED <<ann_selectors, output_functions, nfuncs>>
            ELSE /\ ann_selectors' = AnnotationSelectors(compiled)
                 /\ output_functions' = OutputFunctions(compiled)
                 /\ nfuncs' = Len(output_functions')
                 /\ pc' = "for"
                 /\ exc' = exc
  /\ UNCHANGED <<nrows, ncopy, idx, err_json, results, response, rate_limit_failures,
                 wait_before_next_call, prev_rate_limit_remaining, request_start_time,
                 written, reqs, row_hits, total_hits, last_req_row, outcome, fed,
                 slept, last_returned, params, metadata>>
  /\ UNCHANGED colvars

ProcessorNext ==
  \/ CompileColumns
  \/ Next

ProcessorSpec == ProcessorInit /\ [][ProcessorNext]_vars

\* ================================================================ claims
RunEnded == pc \in {"done", "exit", "raised"}
RateLimitStatus(st) == st = HTTP_TOO_MANY \/ st = HTTP_PAYMENT

\* written[k] is a record of input row k: every field belongs to row k and
\* the record starts with the copy columns of row k.
IsRecordOfRow(rec, k) ==
  /\ \A i \in 1..Len(rec) : rec[i].row = k
  /\ Len(rec) >= ncopy
  /\ \A c \in 1..ncopy : rec[c] = Field("copy", k, c, "")

\* C1: the records written so far are exactly the records of the first k
\* input rows, in input order, one per row; no request for row n+1 is sent
\* before the record of row n is written; a run that completes normally has
\* written one record for every input row.
C1_RecordsFollowInput ==
  /\ Len(written) = IF pc \in {"for", "done"} THEN idx ELSE idx - 1
  /\ \A k \in 1..Len(written) : IsRecordOfRow(written[k], k)
  /\ last_req_row <= Len(written) + 1
  /\ pc = "done" => Len(written) = nrows

C1_Witness ==
  /\ pc = "done"
  /\ nrows = 2
  /\ Len(written) = 2
  /\ \E i \in 1..Len(written[1]) : written[1][i].text = "Error: timed out"
  /\ \E i \in 1..Len(written[2]) : written[2][i].text = "Success"

\* C2: every data record has (copy columns) + 1 + (output functions) fields,
\* whatever the outcome of its row.
C2_FieldCount ==
  \A k \in 1..Len(written) : Len(written[k]) = ncopy + 1 + nfuncs

\* C3: a row whose request failed in transport, the first request of the run
\* included, is written as one record with the status "Error: " + exception
\* text, and the run goes on to the next row.
C3_TransportFailureIsRecorded ==
  [][ (pc = "after" /\ err_json = TransportError)
        => /\ pc' = "for"
           /\ written' = Append(written,
                CopyFields(idx) \o <<StatusField(idx, "Error: timed out")>>) ]_vars

\* C4: a request of a row is re-sent only after a 429 or 402 response, so a
\* row that leaves the loop has sent 1 + (its 429/402 responses) requests.
C4_ResendOnlyOnRateLimit ==
  /\ reqs <= 1 + row_hits
  /\ pc = "after" => reqs = 1 + row_hits

\* C5: every run terminates, whatever the service answers.
C5_RunTerminates == <>RunEnded

C7_AbortWritesNothing ==
  /\ [](pc = "exit" => /\ Len(written) = idx - 1
                       /\ \A k \in 1..Len(written) : IsRecordOfRow(written[k], k))
  /\ [][pc' = "exit" => written' = written]_vars

C7_Witness ==
  /\ pc = "exit"
  /\ idx = 2
  /\ Len(written) = 1

\* A step of LimiterSpec that is a call of handle_rate_limit.
LimiterCalled == pc = "limiter" /\ request_start_time' = request_start_time

\* C8: on a 429 or 402 response with a numeric retry-after header the call
\* returns that value, whatever the other headers and the state, and leaves
\* prev_rate_limit_remaining as it was.
C8_RetryAfterVerbatim ==
  [][ (/\ LimiterCalled
       /\ RateLimitStatus(response'.status)
       /\ response'.retry_after.k = "num")
        => /\ exc' = "none"
           /\ wait_before_next_call' = <<response'.retry_after.v, 1>>
           /\ prev_rate_limit_remaining' = prev_rate_limit_remaining ]_vars

C8_Witness ==
  /\ pc = "limiter"
  /\ exc = "none"
  /\ response.status = HTTP_PAYMENT
  /\ response.retry_after = Num(2)
  /\ response.calls = Num(3)
  /\ response.reset = Num(2)
  /\ wait_before_next_call = <<2, 1>>
  /\ prev_rate_limit_remaining = 1

\* The retry-after branch does not apply to the response.
NotShortCircuited(resp) ==
  ~(RateLimitStatus(resp.status) /\ resp.retry_after.k # "absent")

\* C9: when the calls header or the reset header is absent or non-numeric
\* (and retry-after does not apply) the call returns 0 and does not fail.
C9_UnreadableHeadersGiveZero ==
  [][ (/\ LimiterCalled
       /\ NotShortCircuited(response')
       /\ (response'.calls.k # "num" \/ response'.reset.k # "num"))
        => /\ exc' = "none"
           /\ wait_before_next_call' = Zero ]_vars

\* C10: for integer calls and reset headers (0 included) and any numeric or
\* absent retry-after, the call does not fail and returns a wait >= 0.
C10_TotalAndNonNegative ==
  [][ (/\ LimiterCalled
       /\ response'.calls.k = "num"
       /\ response'.reset.k = "num"
       /\ response'.retry_after.k # "text")
        => /\ exc' = "none"
           /\ RatLeq(Zero, wait_before_next_call') ]_vars

\* C11: every response obtained from the service is passed to
\* handle_rate_limit exactly once: never a second time, and once by the time
\* its row is finished; a request that failed in transport leads to no call.
C11_EachResponseFedOnce ==
  /\ fed <= 1
  /\ (pc = "for" /\ exc = "none" /\ response # Unbound => fed = 1)

\* C12: every record written carries, right after the copy columns, a status
\* field: "Success" exactly when the last response of the row was a 200 with
\* text and entities, and otherwise "Error: " followed by the message of the
\* error payload when it has one, else by the JSON dump of the payload (the
\* empty object included).
C12_StatusField ==
  [][pc = "after" /\ Len(written') = Len(written) + 1 =>
       LET rec == written'[Len(written')]
           expected ==
             IF outcome = "success" THEN "Success"
             ELSE IF "message" \in Keys(err_json)
                  THEN "Error: " \o Get(err_json, "message")
                  ELSE "Error: " \o JsonDumps(err_json)
       IN  /\ Len(rec) > ncopy
           /\ rec[ncopy + 1].kind = "status"
           /\ rec[ncopy + 1].text = expected
           /\ (rec[ncopy + 1].text = "Success") = (outcome = "success")]_vars

\* C18: after a 429/402 response below the cap the next request is for the
\* same row, with no record written in between, and it is sent after sleeping
\* the wait handle_rate_limit returned for that response (its retry-after
\* value when it has one); every request of a run is preceded by a sleep equal
\* to the wait handle_rate_limit returned last (0 before the first request).
C18_ResendSameRowAfterWait ==
  [][/\ pc = "while" =>
          /\ slept' = last_returned
          /\ last_req_row' = idx
          /\ written' = written
     /\ pc = "while" /\ outcome = "ratelimited" =>
          /\ idx' = idx
          /\ last_req_row' = last_req_row
          /\ response.retry_after.k = "num" => slept' = Rat(response.retry_after.v, 1)
     /\ outcome' = "ratelimited" => idx' = idx /\ written' = written
     /\ reqs = 0 /\ reqs' = 1 /\ idx = 1 => slept' = Zero]_vars
C18_Witness ==
  /\ reqs = 2
  /\ row_hits = 1
  /\ last_req_row = idx
  /\ slept = Rat(2, 1)
  /\ response.status = HTTP_OK

\* C19: for a response with numeric calls and reset headers (remaining calls
\* not 0) that is not short-circuited by retry-after, the call returns
\* max(0, (reset / remaining) * used * 1.05 - elapsed), where elapsed is the
\* time since the recorded start of the request (nothing is subtracted when
\* no start is recorded) and used is remaining - previous_remaining when a
\* previous count was recorded and is smaller than remaining, and 1 otherwise.
C19_WaitFormula ==
  [][ (/\ LimiterCalled
       /\ NotShortCircuited(response')
       /\ response'.calls.k = "num"
       /\ response'.reset.k = "num"
       /\ response'.calls.v # 0)
        => LET remaining == response'.calls.v
               reset == response'.reset.v
               previous == prev_rate_limit_remaining
               used == IF previous # -1 /\ previous < remaining
                       THEN remaining - previous ELSE 1
           IN  /\ exc' = "none"
               /\ \E e \in 0..MaxElapsed :
                    LET num == reset * used * MarginNum
                                 - (IF request_start_time THEN e ELSE 0) * remaining * MarginDen
                    IN  wait_before_next_call' =
                          IF num > 0 THEN Rat(num, remaining * MarginDen) ELSE Zero ]_vars

\* remaining = 10, reset = 100, used = 1 gives 10.5 = 21/2.
C19_Witness ==
  /\ pc = "limiter"
  /\ exc = "none"
  /\ response.status = HTTP_OK
  /\ response.calls = Num(10)
  /\ response.reset = Num(100)
  /\ prev_rate_limit_remaining = 10
  /\ wait_before_next_call = <<21, 2>>

\* C20: prev_rate_limit_remaining is -1 until a call is made with a response
\* that is not short-circuited by retry-after and has both rate-limit headers
\* numeric; such a call sets it to the remaining-calls value of its response,
\* and no other call changes it.
C20_PrevIsLastNumericRemaining ==
  /\ prev_rate_limit_remaining = -1
  /\ [][ LimiterCalled =>
           prev_rate_limit_remaining' =
             IF /\ NotShortCircuited(response')
                /\ response'.calls.k = "num"
                /\ response'.reset.k = "num"
             THEN response'.calls.v
             ELSE prev_rate_limit_remaining ]_vars

C20_Witness ==
  /\ pc = "limiter"
  /\ exc = "none"
  /\ prev_rate_limit_remaining = 3
  /\ response.status = HTTP_TOO_MANY
  /\ response.retry_after = Num(2)
  /\ response.calls = Num(10)
  /\ response.reset = Num(100)

\* The column function has been applied, or has raised.
ColumnApplied == pc = "applied" \/ (pc = "raised" /\ fn # NoFn)
\* The template of the column is "[x]" for a literal x without "]".
IsLiteralTemplate(t) ==
  /\ Len(t) >= 2
  /\ Char(t, 1) = "["
  /\ Char(t, Len(t)) = "]"
  /\ ~InString("]", SubSeq(t, 2, Len(t) - 1))

\* C13: for every literal x without a closing bracket, the empty string
\* included, the template [x] evaluates to exactly x for every annotation:
\* the column of a response with n annotations of the type is n times x,
\* joined with ";".
C13_LiteralRoundTrip ==
  ColumnApplied /\ fn.kind = "response_to_column" /\ IsLiteralTemplate(fn.template) =>
    LET x == SubSeq(fn.template, 2, Len(fn.template) - 1)
        n == Len(EntitiesGet(resp_json, fn.ann_type))
    IN  /\ pc = "applied"
        /\ cell = Join(";", [i \in 1..n |-> x])

\* The names of a template made of feature references only: words separated
\* by single spaces ("text kind" -> <<"text", "kind">>).
IsReferenceList(t) ==
  /\ t # ""
  /\ IsWord(Char(t, 1))
  /\ IsWord(Char(t, Len(t)))
  /\ \A i \in 1..Len(t) : IsWord(Char(t, i)) \/ (Char(t, i) = " " /\ IsWord(Char(t, i + 1)))
RECURSIVE ReferenceNames(_)
ReferenceNames(t) ==
  LET sp == IndexOf(t, " ", 1)
  IN  IF sp = 0 THEN <<t>>
      ELSE <<SubSeq(t, 1, sp - 1)>> \o ReferenceNames(SubSeq(t, sp + 1, Len(t)))
\* A reference followed by the modifier: "<name> as %".
HasPercentModifier(t) ==
  Len(t) > 5 /\ SubSeq(t, Len(t) - 4, Len(t)) = " as %" /\ IsReferenceList(SubSeq(t, 1, Len(t) - 5))

\* What the claim says a reference to name yields for an annotation.
Resolved(name, ann, resp) ==
  IF name = "text" THEN unescape_lt_amp(Slice(resp.text, ann["indices"].l))
  ELSE IF name \in DOMAIN ann \ {"indices"} THEN str(ann[name])
  ELSE name \o " not found"

\* C14: a feature reference never fails, with or without the modifier, and
\* yields, in this order: for the name text the unescaped slice of the
\* response text at the annotation's indices, also when the annotation has a
\* feature named text; for a name that is a feature of the annotation
\* str(value); otherwise "<name> not found".
C14_ReferenceResolution ==
  ColumnApplied /\ fn.kind = "response_to_column" =>
    LET anns == EntitiesGet(resp_json, fn.ann_type)
        t == fn.template
    IN  /\ IsReferenceList(t) \/ HasPercentModifier(t) => pc = "applied"
        /\ IsReferenceList(t) =>
             cell = Join(";", [i \in 1..Len(anns) |->
                                 Join(" ", [r \in 1..Len(ReferenceNames(t)) |->
                                              Resolved(ReferenceNames(t)[r], anns[i], resp_json)])])

\* The column definition c is a type token, white space and then exactly r.
RestIs(c, r) ==
  LET s == strip(c)
  IN  \E i \in 1..Len(s), j \in 1..Len(s) :
        /\ i < j
        /\ \A k \in 1..i : ~IsSpace(Char(s, k))
        /\ \A k \in (i + 1)..j : IsSpace(Char(s, k))
        /\ SubSeq(s, j + 1, Len(s)) = r

\* C15: the "#count" function returns the decimal number of annotations in
\* entities[type], "0" when the type is empty or absent, and the "present?"
\* function returns "1" exactly when that number is greater than 0 and "0"
\* otherwise.
C15_CountAndPresence ==
  LET e == resp_json.entities
      n == IF fn.ann_type \in DOMAIN e THEN Len(e[fn.ann_type]) ELSE 0
  IN  /\ ColumnApplied /\ RestIs(col, "#count") =>
           /\ pc = "applied"
           /\ cell = IntStr(n)
           /\ n = 0 => cell = "0"
      /\ ColumnApplied /\ RestIs(col, "present?") =>
           /\ pc = "applied"
           /\ cell = (IF n > 0 THEN "1" ELSE "0")
C15_Witness ==
  /\ pc = "applied"
  /\ col = "  Person   #count "
  /\ fn.ann_type = "Person"
  /\ "Person" \in DOMAIN resp_json.entities
  /\ Len(resp_json.entities["Person"]) = 2
  /\ cell = "2"

\* The column is the text of one annotation that covers exactly
\* "A &amp; B &lt;tag&gt;": through text_under, or through the template
\* "[=]text", which puts "=" in front of it.
ExtractsEscapedText(prefix) ==
  /\ pc = "applied"
  /\ fn.ann_type \in DOMAIN resp_json.entities
  /\ Len(resp_json.entities[fn.ann_type]) = 1
  /\ resp_json.text = "A &amp; B &lt;tag&gt;"
  /\ resp_json.entities[fn.ann_type][1]["indices"].l = <<0, 21>>
  /\ \/ fn.kind = "text_under" /\ prefix = ""
     \/ fn.kind = "response_to_column" /\ fn.template = "[=]text" /\ prefix = "="

\* C16 as stated: annotation text "A &amp; B &lt;tag&gt;" extracted through
\* the text feature (text_under or the text reference of a template) renders
\* "A & B <tag>".
C16_RendersTag ==
  \A prefix \in {"", "="} : ExtractsEscapedText(prefix) => cell = prefix \o "A & B <tag>"

\* C16 as amended: it renders "A & B <tag&gt;"; only "&amp;" and "&lt;" are
\* reversed and "&gt;" stays as it is.
C16_RendersAmpAndLtOnly ==
  \A prefix \in {"", "="} : ExtractsEscapedText(prefix) => cell = prefix \o "A & B <tag&gt;"
C16_Witness ==
  /\ ExtractsEscapedText("=")
  /\ cell = "=A & B <tag&gt;"

\* tok is the type token of the column definition c: its first run of
\* characters that are not white space.
IsTypeToken(tok, c) ==
  LET s == strip(c)
  IN  /\ tok # ""
      /\ StartsWith(s, tok)
      /\ \A k \in 1..Len(tok) : ~IsSpace(Char(tok, k))
      /\ Len(s) > Len(tok) => IsSpace(Char(s, Len(tok) + 1))
\* part is what follows the first colon of tok.
IsAfterFirstColon(part, tok) ==
  \E i \in 1..Len(tok) :
    /\ Char(tok, i) = ":"
    /\ \A k \in 1..(i - 1) : Char(tok, k) # ":"
    /\ part = SubSeq(tok, i + 1, Len(tok))
ColumnCompiled == pc \in {"compiled", "applied"} \/ (pc = "raised" /\ fn # NoFn)

\* C17: output_function returns, for every column definition and every
\* type_to_sel, the empty one included, exactly one selector and one
\* function: a type token with a colon is the selector as it is and the
\* annotation type is what follows its first colon; else a token that is a
\* key of type_to_sel has the selector type_to_sel[token]; else the selector
\* is ":" followed by the token.
C17_SelectorResolution ==
  /\ pc = "raised" => fn # NoFn
  /\ ColumnCompiled =>
       /\ fn.kind \in {"text_under", "present?", "#count", "response_to_column"}
       /\ \E tok \in {SubSeq(strip(col), 1, n) : n \in 1..Len(strip(col))} :
            /\ IsTypeToken(tok, col)
            /\ IF \E k \in 1..Len(tok) : Char(tok, k) = ":"
               THEN ann_selector = tok /\ IsAfterFirstColon(fn.ann_type, tok)
               ELSE IF tok \in DOMAIN type_to_sel
                    THEN ann_selector = type_to_sel[tok] /\ fn.ann_type = tok
                    ELSE ann_selector = ":" \o tok /\ fn.ann_type = tok
C17_Witness ==
  /\ pc = "compiled"
  /\ type_to_sel = NoTypes
  /\ col = "a:b:Person #count"
  /\ ann_selector = "a:b:Person"
  /\ fn.ann_type = "b:Person"

\* The selectors the metadata lists, defaultAnnotations first, then
\* additionalAnnotations, each in its listed order.
ListedInOrder(md) == ListedSelectors(md.default) \o ListedSelectors(md.additional)

\* C22: after a metadata call answered with HTTP 200 the mapping has exactly
\* the annotation types the listed selectors name, each mapped to the first
\* selector naming it in the order defaultAnnotations, additionalAnnotations
\* (a later selector of the same type never replaces it); after any other
\* status the mapping is empty.
C22_FirstSelectorPerType ==
  /\ pc = "fetched" /\ metadata.status # HTTP_OK => type_to_sel = NoTypes
  /\ metadata.status \notin {0, HTTP_OK} => pc # "raised"
  /\ pc = "fetched" /\ metadata.status = HTTP_OK =>
       LET listed == ListedInOrder(metadata)
       IN  /\ \A i \in 1..Len(listed) :
                \E t \in DOMAIN type_to_sel : IsAfterFirstColon(t, listed[i])
           /\ \A t \in DOMAIN type_to_sel :
                \E i \in 1..Len(listed) :
                  /\ IsAfterFirstColon(t, listed[i])
                  /\ type_to_sel[t] = listed[i]
                  /\ \A j \in 1..(i - 1) : ~IsAfterFirstColon(t, listed[j])
C22_Witness ==
  /\ pc = "fetched"
  /\ metadata.default = Group(" Geo:Location , Bio:Person,:Location")
  /\ metadata.additional = Group("Bio:Person,Geo:Location,Med:Person")
  /\ DOMAIN type_to_sel = {"Location", "Person"}
  /\ type_to_sel["Location"] = "Geo:Location"
  /\ type_to_sel["Person"] = "Bio:Person"

\* The duplicate-free set of the selectors of the compiled definitions, and
\* whether the list of functions follows the definitions in their order.
SelectorsOfDefinitions ==
  {output_function(output_columns[i], type_to_sel).ann_selector : i \in 1..Len(output_columns)}
FunctionsFollowDefinitions ==
  /\ Len(output_functions) = Len(output_columns)
  /\ \A i \in 1..Len(output_columns) :
       output_functions[i] = output_function(output_columns[i], type_to_sel).fn

\* C21: the column set is compiled before the first row: the selector set is
\* the set of the selectors of all compiled definitions and the output
\* functions are in the order of the definitions; no later step changes
\* either; every request, a resend after a 429/402 included, carries that
\* selector set, the same as the request before it.
C21_ColumnSetFixed ==
  [][/\ pc = "init" /\ pc' # "raised" =>
          /\ pc' = "for"
          /\ idx' = 0
          /\ reqs' = 0
          /\ ~params'.sent
          /\ ann_selectors' = SelectorsOfDefinitions'
          /\ FunctionsFollowDefinitions'
     /\ pc # "init" =>
          /\ ann_selectors' = ann_selectors
          /\ output_functions' = output_functions
          /\ output_columns' = output_columns
          /\ type_to_sel' = type_to_sel
     /\ pc = "while" =>
          /\ params' = Params(ann_selectors)
          /\ params.sent => params' = params]_vars
C21_Witness ==
  /\ pc = "after"
  /\ reqs = 2
  /\ row_hits = 1
  /\ params = Params({"Bio:Person"})
  /\ output_columns = <<"Person #count", "Bio:Person kind">>
  /\ Len(output_functions) = 2
  /\ output_functions[1].kind = "#count"

====
